---------------------------- MODULE Spec2Model ----------------------------
(***************************************************************************)
(* A model of the Intel HEX package go-intelhex: the record codec          *)
(* (Checksum, MarshalBinary, UnmarshalBinary), the streaming Scanner and   *)
(* SegmentSlice (Size, Write).                                             *)
(*                                                                         *)
(* Bytes are naturals in 0..255, uint16 values naturals in 0..65535.  A    *)
(* uint32 is kept as the pair [hi, lo] of its two 16-bit halves, so that   *)
(* every 32-bit value (up to 0xFFFFFFFF) is representable and arithmetic   *)
(* keeps its 32-bit width.  Text is a sequence of ASCII codes.             *)
(***************************************************************************)
EXTENDS Integers, Sequences, FiniteSets, TLC

\* ------------------------------------------------------------------ bounds
\* Longest data field of the records and raw inputs the codec is tried on.
MaxData == 2
\* Longest stream (in lines) given to the Scanner.
MaxLines == 3
\* Scan calls the caller makes after Scan has returned false.
MaxExtra == 2
\* Longest slice (in segments) given to Sort, Size and Write directly.
MaxSegs == 2
\* Most calls a failing writer takes before its call that fails.
MaxWrites == 3
\* Most bytes the failing call of a writer takes.
MaxTaken == 4

\* --------------------------------------------------------------- constants
StartCode == 58

RecordTypeData == 0
RecordTypeEOF == 1
RecordTypeExtSegAddr == 2
RecordTypeStartSegAddr == 3
RecordTypeExtLinAddr == 4
RecordTypeStartLinAddr == 5
NumRecordTypes == 6

\* ------------------------------------------------------------------ errors
\* An error value: its kind (the dynamic type or the message of the Go
\* error) and up to two byte values it carries.  Nil is the nil error.
Error(kind, a, b) == [kind |-> kind, a |-> a, b |-> b]
Nil == Error("nil", 0, 0)

checksumError(expected, calculated) == Error("checksumError", expected, calculated)
invalidRecordTypeError(t) == Error("invalidRecordTypeError", t, 0)
byteCountMismatchError(byteCount, dataLength) ==
    Error("byteCountMismatchError", byteCount, dataLength)

IsChecksumError(err) == err.kind = "checksumError"

\* A run-time panic (no error value: the call does not return).
runtimePanic(what) == Error("panic", what, 0)
IsPanic(err) == err.kind = "panic"

\* s[low:high] and s[i] are in range (they panic otherwise).
SliceInRange(s, low, high) == 0 <= low /\ low <= high /\ high <= Len(s)
IndexInRange(s, i) == 0 <= i /\ i < Len(s)
IsInvalidRecordTypeError(err) == err.kind = "invalidRecordTypeError"

\* ---------------------------------------------------------------- Checksum
\* The sum the loop of Checksum accumulates, taken half by half (addition
\* is associative) so that a long data field is summed at a small depth.
RECURSIVE SumBytes(_)
SumBytes(data) ==
    IF data = <<>> THEN 0
    ELSE IF Len(data) = 1 THEN data[1]
    ELSE LET h == Len(data) \div 2 IN
         SumBytes(SubSeq(data, 1, h)) + SumBytes(SubSeq(data, h + 1, Len(data)))

\* A mutant of Checksum: the one's complement (the "+ 1" forgotten).
ChecksumOnesComplement(data) == (255 - (SumBytes(data) % 256)) % 256

\* byte(^sum + 1): the conversion to byte keeps the low 8 bits, and the low
\* 8 bits of ^sum are 255 - (sum mod 256) whatever the width of uint.
Checksum(data) == ((255 - (SumBytes(data) % 256)) + 1) % 256

\* ------------------------------------------------------------------ Record
Record(byteCount, address, recordType, data, checksum) ==
    [ByteCount |-> byteCount, Address |-> address, RecordType |-> recordType,
     Data |-> data, Checksum |-> checksum]

\* The zero value of Record (var record Record).
ZeroRecord == Record(0, 0, 0, <<>>, 0)

\* A mutant of PutUint16: little-endian byte order.
PutUint16LittleEndian(v) == <<v % 256, v \div 256>>

\* binary.Write(buf, binary.BigEndian, &x.Address)
PutUint16(v) == <<v \div 256, v % 256>>

\* binary.Read(r, binary.BigEndian, &x.Address) on two bytes.
Uint16(b) == b[1] * 256 + b[2]

\* binary.Write into a bytes.Buffer never fails.
BufferWriteErr == Nil

\* (x *Record) MarshalBinary: the bytes returned, the error returned and
\* the record afterwards (its Checksum field is fixed on the way).
MarshalBinary(x) ==
    LET \* lines 71-73: err is assigned and the function goes on
        err0 == IF Len(x.Data) /= x.ByteCount
                  THEN byteCountMismatchError(x.ByteCount, 0)
                  ELSE Nil
        \* lines 86, 91: err = binary.Write(...) assigns err anew
        err1 == BufferWriteErr
    IN  IF x.RecordType = RecordTypeExtSegAddr /\ x.ByteCount /= 2
          THEN [data |-> <<>>, x |-> x,
                err |-> Error("expected extended segment address record type to have byte count of 0x02", x.ByteCount, 0)]
        ELSE IF x.RecordType = RecordTypeExtLinAddr /\ x.ByteCount /= 2
          THEN [data |-> <<>>, x |-> x,
                err |-> Error("expected extended linear address record type to have byte count of 0x02", x.ByteCount, 0)]
        ELSE IF x.RecordType >= NumRecordTypes
          THEN [data |-> <<>>, x |-> x,
                err |-> invalidRecordTypeError(x.RecordType)]
        ELSE LET buf == <<x.ByteCount>> \o PutUint16(x.Address)
                          \o <<x.RecordType>> \o x.Data
                 sum == Checksum(buf)
             IN  [data |-> Append(buf, sum),
                  x |-> [x EXCEPT !.Checksum = sum],
                  err |-> err1]

NewRecord(recordType, address, data) ==
    MarshalBinary(Record(Len(data) % 256, address, recordType, data, 0)).x

EOFRecord == NewRecord(RecordTypeEOF, 0, <<>>)

\* --------------------------------------------------------- UnmarshalBinary
\* A mutant of ReaderLen: nothing is ever left.
ReaderLenZero(data, off) == 0

\* r.Len() of the bytes.Reader after off bytes were read.
ReaderLen(data, off) == Len(data) - off

\* binary.Read of an n-byte field succeeds when n bytes are left.
CanRead(data, off, n) == off + n <= Len(data)

\* make([]byte, n)
Zeros(n) == [i \in 1..n |-> 0]

\* A mutant of VerifyExtByteCount: the byte count of extension records is
\* not checked.
VerifyExtByteCountSkipped(recordType, byteCount) == Nil

\* Verify extended addresses have a byte count of 2.
VerifyExtByteCount(recordType, byteCount) ==
    IF recordType = RecordTypeExtSegAddr /\ byteCount /= 2
      THEN Error("expected extended segment address record type to have byte count of 0x02", byteCount, 0)
    ELSE IF recordType = RecordTypeExtLinAddr /\ byteCount /= 2
      THEN Error("expected extended linear address record type to have byte count of 0x02", byteCount, 0)
    ELSE Nil

\* (x *Record) UnmarshalBinary on a zero Record: the error returned and the
\* record as far as it was filled in.
UnmarshalBinary(data) ==
    LET x0 == ZeroRecord IN
    IF ~CanRead(data, 0, 1)
      THEN [err |-> Error("error decoding byte count field", 0, 0), x |-> x0]
    ELSE LET x1 == [x0 EXCEPT !.ByteCount = data[1]] IN
    IF ~CanRead(data, 1, 2)
      THEN [err |-> Error("error decoding address field", 0, 0), x |-> x1]
    ELSE LET x2 == [x1 EXCEPT !.Address = Uint16(SubSeq(data, 2, 3))] IN
    IF ~CanRead(data, 3, 1)
      THEN [err |-> Error("error decoding record type field", 0, 0), x |-> x2]
    ELSE LET x3 == [x2 EXCEPT !.RecordType = data[4]] IN
    IF x3.RecordType >= NumRecordTypes
      THEN [err |-> invalidRecordTypeError(x3.RecordType), x |-> x3]
    ELSE IF VerifyExtByteCount(x3.RecordType, x3.ByteCount) /= Nil
      THEN [err |-> VerifyExtByteCount(x3.RecordType, x3.ByteCount), x |-> x3]
    ELSE LET n == x3.ByteCount
             x4 == [x3 EXCEPT !.Data = Zeros(n)] IN
    IF n > 0 /\ ~CanRead(data, 4, n)
      THEN [err |-> Error("error decoding data field", 0, 0), x |-> x4]
    ELSE LET x5 == [x4 EXCEPT !.Data = SubSeq(data, 5, 4 + n)] IN
    IF ~CanRead(data, 4 + n, 1)
      THEN [err |-> Error("error decoding checksum field", 0, 0), x |-> x5]
    ELSE LET x6 == [x5 EXCEPT !.Checksum = data[5 + n]] IN
    IF ReaderLen(data, 5 + n) /= 0
      THEN [err |-> Error("unexpected bytes left", ReaderLen(data, 5 + n), 0), x |-> x6]
    ELSE IF ~SliceInRange(data, 0, Len(data) - 1)
      THEN [err |-> runtimePanic("slice bounds out of range"), x |-> x6]
    ELSE LET calculated == Checksum(SubSeq(data, 1, Len(data) - 1)) IN
    IF calculated /= x6.Checksum
      THEN [err |-> checksumError(x6.Checksum, calculated), x |-> x6]
      ELSE [err |-> Nil, x |-> x6]

\* --------------------------------------------------------------------- hex
\* "0123456789abcdef"
hextable == <<48, 49, 50, 51, 52, 53, 54, 55, 56, 57, 97, 98, 99, 100, 101, 102>>

\* hex.EncodeToString: two lower-case digits per byte.
EncodeToString(d) ==
    [i \in 1..(2 * Len(d)) |->
        IF i % 2 = 1 THEN hextable[(d[(i + 1) \div 2] \div 16) + 1]
                     ELSE hextable[(d[i \div 2] % 16) + 1]]

\* strings.ToUpper on ASCII text.
ToUpper(s) == [i \in 1..Len(s) |-> IF s[i] >= 97 /\ s[i] <= 122 THEN s[i] - 32 ELSE s[i]]

\* A mutant of FromHexChar: lower-case digits are not hex digits.
FromHexCharUpperOnly(c) ==
    IF c >= 48 /\ c <= 57 THEN c - 48
    ELSE IF c >= 65 /\ c <= 70 THEN c - 55
    ELSE 255

\* The value of a hex digit of either case, 255 for any other character.
FromHexChar(c) ==
    IF c >= 48 /\ c <= 57 THEN c - 48
    ELSE IF c >= 97 /\ c <= 102 THEN c - 87
    ELSE IF c >= 65 /\ c <= 70 THEN c - 55
    ELSE 255

\* hex.Decode(dst, src): the decoded bytes and the error. The pairs are
\* decoded in order up to the first character that is not a hex digit; a
\* source of odd length with only hex digits ends in ErrLength.
HexDecode(src) ==
    LET bad == {i \in 1..Len(src) : FromHexChar(src[i]) > 15}
        decoded(n) == [k \in 1..n |->
                         FromHexChar(src[2 * k - 1]) * 16 + FromHexChar(src[2 * k])]
    IN  IF bad /= {}
          THEN LET i == CHOOSE b \in bad : \A c \in bad : b <= c IN
               [dst |-> decoded((i - 1) \div 2),
                err |-> Error("hex.InvalidByteError", src[i], 0)]
        ELSE IF Len(src) % 2 = 1
          THEN [dst |-> decoded(Len(src) \div 2), err |-> Error("hex.ErrLength", 0, 0)]
        ELSE [dst |-> decoded(Len(src) \div 2), err |-> Nil]


\* ------------------------------------------------------------------ uint32
U32(hi, lo) == [hi |-> hi, lo |-> lo]
Zero32 == U32(0, 0)

\* A mutant of Add32: the two halves are added apart, no carry between them.
Add32NoCarry(a, b) == U32((a.hi + b.hi) % 65536, (a.lo + b.lo) % 65536)

\* a + b in uint32 arithmetic (the carry out of bit 31 is dropped).
Add32(a, b) ==
    U32((a.hi + b.hi + ((a.lo + b.lo) \div 65536)) % 65536, (a.lo + b.lo) % 65536)

\* a - b in uint32 arithmetic (the borrow out of bit 31 is dropped).
Sub32(a, b) ==
    U32((a.hi - b.hi - (IF a.lo < b.lo THEN 1 ELSE 0)) % 65536,
        (a.lo - b.lo) % 65536)

\* uint32(n) of a non-negative int n below 2^31.
ToUint32(n) == U32((n \div 65536) % 65536, n % 65536)

\* a < b on uint32.
Less32(a, b) == a.hi < b.hi \/ (a.hi = b.hi /\ a.lo < b.lo)

\* ----------------------------------------------------------------- Segment
Segment(address, data) == [Address |-> address, Data |-> data]
ZeroSegment == Segment(Zero32, <<>>)

\* ----------------------------------------------------------------- Scanner
\* io.EOF, the reader's normal end, and a read error of the reader.
ioEOF == Error("EOF", 0, 0)
ioReadError == Error("read error", 0, 0)

\* bufio.NewScanner(r): no line read yet.
NewBufioScanner == [pos |-> 0, done |-> FALSE, err |-> Nil]

\* (*bufio.Scanner).Err: io.EOF is not reported.
BufioErr(b) == IF b.err = ioEOF THEN Nil ELSE b.err

\* NewScanner(r)
NewScanner ==
    [scanner |-> NewBufioScanner,
     firstErr |-> Nil,
     extendedSegmentedAddressBase |-> Zero32,
     extendedLinearAddressBase |-> Zero32,
     segment |-> ZeroSegment]

\* (s *Scanner) Err
Err(s) == IF s.firstErr /= Nil THEN s.firstErr ELSE BufioErr(s.scanner)

\* A mutant of SegmentedBase: shifted like a linear base.
SegmentedBaseShift16(data) == U32((data[1] * 256 + data[2]) % 65536, 0)

\* ((uint32(Data[0]) << 8) | uint32(Data[1])) << 4
SegmentedBase(data) ==
    U32(((data[1] * 256 + data[2]) * 16) \div 65536,
        ((data[1] * 256 + data[2]) * 16) % 65536)

\* ((uint32(Data[0]) << 8) | uint32(Data[1])) << 16
LinearBase(data) == U32((data[1] * 256 + data[2]) % 65536, 0)

\* The address base of a Data record: the segmented base if non-zero, then
\* the linear base if non-zero.
AddressBase(s) ==
    LET b0 == Zero32
        b1 == IF s.extendedSegmentedAddressBase /= Zero32
                THEN s.extendedSegmentedAddressBase ELSE b0
    IN  IF s.extendedLinearAddressBase /= Zero32
          THEN s.extendedLinearAddressBase ELSE b1

\* A mutant of Dispatch: an extension record leaves the other base as it was.
DispatchKeepsOtherBase(s, record) ==
    IF record.RecordType = RecordTypeData
      THEN [s |-> [s EXCEPT !.segment =
                      Segment(Add32(AddressBase(s), U32(0, record.Address)),
                              record.Data)],
            at |-> "segment"]
    ELSE IF record.RecordType = RecordTypeEOF
      THEN [s |-> s, at |-> "eof"]
    ELSE IF record.RecordType = RecordTypeExtSegAddr
      THEN [s |-> [s EXCEPT !.extendedSegmentedAddressBase = SegmentedBase(record.Data)],
            at |-> "next"]
    ELSE IF record.RecordType = RecordTypeExtLinAddr
      THEN [s |-> [s EXCEPT !.extendedLinearAddressBase = LinearBase(record.Data)],
            at |-> "next"]
    ELSE [s |-> s, at |-> "next"]

\* A mutant of Dispatch: a StartSegAddr or StartLinAddr record clears both
\* bases.
DispatchStartClears(s, record) ==
    IF record.RecordType = RecordTypeData
      THEN [s |-> [s EXCEPT !.segment =
                      Segment(Add32(AddressBase(s), U32(0, record.Address)),
                              record.Data)],
            at |-> "segment"]
    ELSE IF record.RecordType = RecordTypeEOF
      THEN [s |-> s, at |-> "eof"]
    ELSE IF record.RecordType = RecordTypeExtSegAddr
      THEN [s |-> [s EXCEPT !.extendedSegmentedAddressBase = SegmentedBase(record.Data),
                            !.extendedLinearAddressBase = Zero32],
            at |-> "next"]
    ELSE IF record.RecordType = RecordTypeExtLinAddr
      THEN [s |-> [s EXCEPT !.extendedSegmentedAddressBase = Zero32,
                            !.extendedLinearAddressBase = LinearBase(record.Data)],
            at |-> "next"]
    ELSE [s |-> [s EXCEPT !.extendedSegmentedAddressBase = Zero32,
                          !.extendedLinearAddressBase = Zero32],
          at |-> "next"]

\* The switch on record.RecordType: the scanner afterwards and the return
\* taken ("segment": return true, "eof": return false, "next": next line,
\* "panic": record.Data[0] or record.Data[1] is out of range).
Dispatch(s, record) ==
    IF record.RecordType = RecordTypeData
      THEN [s |-> [s EXCEPT !.segment =
                      Segment(Add32(AddressBase(s), U32(0, record.Address)),
                              record.Data)],
            at |-> "segment"]
    ELSE IF record.RecordType = RecordTypeEOF
      THEN [s |-> s, at |-> "eof"]
    ELSE IF record.RecordType \in {RecordTypeExtSegAddr, RecordTypeExtLinAddr}
            /\ ~(IndexInRange(record.Data, 0) /\ IndexInRange(record.Data, 1))
      THEN [s |-> s, at |-> "panic"]
    ELSE IF record.RecordType = RecordTypeExtSegAddr
      THEN [s |-> [s EXCEPT !.extendedSegmentedAddressBase = SegmentedBase(record.Data),
                            !.extendedLinearAddressBase = Zero32],
            at |-> "next"]
    ELSE IF record.RecordType = RecordTypeExtLinAddr
      THEN [s |-> [s EXCEPT !.extendedSegmentedAddressBase = Zero32,
                            !.extendedLinearAddressBase = LinearBase(record.Data)],
            at |-> "next"]
    ELSE [s |-> s, at |-> "next"]

\* A mutant of MakeData: the bytes are stored into the array the slice
\* already points to (a new one only for a nil slice).
MakeDataInPlace(h, old, data) ==
    IF old = 0 THEN [heap |-> Append(h, data), ref |-> Len(h) + 1]
    ELSE [heap |-> [h EXCEPT ![old] = data], ref |-> old]

\* s.segment.Data = make([]byte, len(record.Data)); copy(s.segment.Data,
\* record.Data) on a heap h of backing arrays, old being the array
\* s.segment.Data pointed to (0 for a nil slice): a new array is allocated
\* and the old one is left as it was.
MakeData(h, old, data) == [heap |-> Append(h, data), ref |-> Len(h) + 1]

\* A mutant of Exhausted: the end of the source is no error.
ExhaustedNoError(s, rdErr) ==
    LET b == IF s.scanner.done THEN s.scanner
             ELSE [s.scanner EXCEPT !.done = TRUE,
                                    !.err = IF @ = Nil THEN rdErr ELSE @]
    IN  [s |-> [s EXCEPT !.scanner = b, !.firstErr = BufioErr(b)],
         at |-> "exhausted"]

\* A mutant of Exhausted: the end of the source is always the missing-EOF
\* error.
ExhaustedUnexpectedEOF(s, rdErr) ==
    LET b == IF s.scanner.done THEN s.scanner
             ELSE [s.scanner EXCEPT !.done = TRUE,
                                    !.err = IF @ = Nil THEN rdErr ELSE @]
    IN  [s |-> [s EXCEPT !.scanner = b,
                         !.firstErr = Error("unexpected EOF", 0, 0)],
         at |-> "exhausted"]

\* s.scanner.Scan() returned false: the reader ended with rdErr (io.EOF or a
\* read error) unless it had ended before or a read error of it is kept
\* already.
Exhausted(s, rdErr) ==
    LET b == IF s.scanner.done THEN s.scanner
             ELSE [s.scanner EXCEPT !.done = TRUE,
                                    !.err = IF @ = Nil THEN rdErr ELSE @]
    IN  [s |-> [s EXCEPT !.scanner = b,
                         !.firstErr = IF BufioErr(b) = Nil
                                        THEN Error("unexpected EOF", 0, 0)
                                        ELSE BufioErr(b)],
         at |-> "exhausted"]

\* A mutant of Line: the error of UnmarshalBinary is kept as a new error
\* made of its text.
LineWrapsError(s, hexData) ==
    IF Len(hexData) = 0 THEN [s |-> s, at |-> "next"]
    ELSE IF hexData[1] /= StartCode
      THEN [s |-> [s EXCEPT !.firstErr = Error("expected start code", hexData[1], 0)],
            at |-> "error"]
    ELSE LET h == HexDecode(Tail(hexData)) IN
    IF h.err /= Nil
      THEN [s |-> [s EXCEPT !.firstErr = h.err], at |-> "error"]
    ELSE LET u == UnmarshalBinary(h.dst) IN
    IF u.err /= Nil
      THEN [s |-> [s EXCEPT !.firstErr = Error("error decoding record", 0, 0)],
            at |-> "error"]
    ELSE Dispatch(s, u.x)

\* One line of the loop body up to the switch: the scanner afterwards and
\* the return taken ("error": return false with firstErr set, "panic": no
\* return, UnmarshalBinary has panicked).
Line(s, hexData) ==
    IF Len(hexData) = 0 THEN [s |-> s, at |-> "next"]
    ELSE IF hexData[1] /= StartCode
      THEN [s |-> [s EXCEPT !.firstErr = Error("expected start code", hexData[1], 0)],
            at |-> "error"]
    ELSE LET h == HexDecode(Tail(hexData)) IN
    IF h.err /= Nil
      THEN [s |-> [s EXCEPT !.firstErr = h.err], at |-> "error"]
    ELSE LET u == UnmarshalBinary(h.dst) IN
    IF IsPanic(u.err) THEN [s |-> s, at |-> "panic"]
    ELSE IF u.err /= Nil
      THEN [s |-> [s EXCEPT !.firstErr = u.err], at |-> "error"]
    ELSE Dispatch(s, u.x)

\* s.scanner.Scan() returning true: the next line is delivered.  When the
\* Read that returns the reader's read error is made for this line (rdAt
\* lines were delivered before it), bufio.Scanner keeps the error, which its
\* Err() reports from then on, and goes on delivering the lines it holds.
BufioScan(b, rdErr, rdAt) ==
    [b EXCEPT !.pos = @ + 1,
              !.err = IF @ = Nil /\ rdErr /= ioEOF /\ b.pos = rdAt
                        THEN rdErr ELSE @]

\* for s.scanner.Scan() { ... } and what follows it.
RECURSIVE ScanLoop(_, _, _, _)
ScanLoop(s, lines, rdErr, rdAt) ==
    IF s.scanner.done \/ s.scanner.pos >= Len(lines)
      THEN Exhausted(s, rdErr)
    ELSE LET r == Line([s EXCEPT !.scanner = BufioScan(@, rdErr, rdAt)],
                       lines[s.scanner.pos + 1])
         IN  IF r.at = "next" THEN ScanLoop(r.s, lines, rdErr, rdAt) ELSE r

\* A mutant of Scan: the first error does not stop later calls.
ScanNotSticky(s, lines, rdErr, rdAt) == ScanLoop(s, lines, rdErr, rdAt)

\* (s *Scanner) Scan over the lines of the reader; it returns true exactly
\* when at = "segment".
Scan(s, lines, rdErr, rdAt) ==
    IF s.firstErr /= Nil THEN [s |-> s, at |-> "sticky"]
    ELSE ScanLoop(s, lines, rdErr, rdAt)


\* ------------------------------------------------------------ SegmentSlice
\* A mutant of ExtLinData: the two bytes of the base swapped.
ExtLinDataSwapped(base) == <<base % 256, (base \div 256) % 256>>

\* []byte{byte(base >> 8), byte(base >> 0)}
ExtLinData(base) == <<(base \div 256) % 256, base % 256>>

\* The error of a writer that fails.
ioWriteError == Error("write error", 0, 0)

\* A writer (any io.Writer): one that takes every call, or one whose call
\* number `at` fails, having taken the first `took` bytes given to it (all of
\* them if they are fewer), and whose later calls all succeed (recovers) or
\* all fail, taking nothing.
Writer(fails, at, took, recovers) ==
    [fails |-> fails, at |-> at, took |-> took, recovers |-> recovers]
NoFault == Writer(FALSE, 0, 0, TRUE)

\* Whether call number n of the writer returns a nil error.
Accepts(wr, n) == ~wr.fails \/ n < wr.at \/ (n > wr.at /\ wr.recovers)

\* The bytes of p that call number n of the writer takes.
Taken(wr, n, p) ==
    IF Accepts(wr, n) THEN p
    ELSE IF n = wr.at /\ wr.took < Len(p) THEN SubSeq(p, 1, wr.took)
    ELSE IF n = wr.at THEN p
    ELSE <<>>

\* fmt.Fprint(w, string(StartCode)); _, err = w.Write(...); if err != nil
\* { return err }; fmt.Fprintln(w, "") after n calls of the writer wr: the
\* errors of Fprint and Fprintln are dropped, that of w.Write is returned.
WriteLine(w, n, wr, d) ==
    LET t1 == w \o Taken(wr, n, <<StartCode>>)
        t2 == t1 \o Taken(wr, n + 1, ToUpper(EncodeToString(d)))
        t3 == t2 \o Taken(wr, n + 2, <<10>>)
    IN  IF ~Accepts(wr, n + 1) THEN [err |-> ioWriteError, text |-> t2, n |-> n + 2]
        ELSE [err |-> Nil, text |-> t3, n |-> n + 3]

\* The loop of Write from the given base on, after n calls of the writer wr
\* that left the text w: the error returned, the text written and the
\* number of calls made.
RECURSIVE WriteLoop(_, _, _, _, _)
WriteLoop(segs, extendedLinearAddressBase, w, n, wr) ==
    IF segs = <<>>
      THEN LET m == MarshalBinary(EOFRecord) IN
           IF m.err /= Nil THEN [err |-> m.err, text |-> w, n |-> n]
           ELSE WriteLine(w, n, wr, m.data)
    ELSE LET seg == Head(segs)
             base == seg.Address.hi
             e == MarshalBinary(NewRecord(RecordTypeExtLinAddr, 0, ExtLinData(base)))
             l1 == IF base /= extendedLinearAddressBase
                     THEN WriteLine(w, n, wr, e.data)
                   ELSE [err |-> Nil, text |-> w, n |-> n]
             m == MarshalBinary(NewRecord(RecordTypeData, seg.Address.lo, seg.Data))
         IN  IF base /= extendedLinearAddressBase /\ e.err /= Nil
               THEN [err |-> e.err, text |-> w, n |-> n]
             ELSE IF l1.err /= Nil THEN l1
             ELSE IF m.err /= Nil THEN [err |-> m.err, text |-> l1.text, n |-> l1.n]
             ELSE LET l2 == WriteLine(l1.text, l1.n, wr, m.data) IN
                  IF l2.err /= Nil THEN l2
                  ELSE WriteLoop(Tail(segs), base, l2.text, l2.n, wr)

\* What a call of Write leaves: the error returned, the text the writer
\* took, and whether some of the text was lost (a call of the writer failed).
Written(r, wr) == [err |-> r.err, text |-> r.text, lost |-> wr.fails /\ r.n > wr.at]

\* A mutant of Write: no base counts as written before the first segment.
WriteBaseUnset(segs, wr) == Written(WriteLoop(segs, 65536, <<>>, 0, wr), wr)

\* (s SegmentSlice) Write(w) on the writer wr, empty so far.
Write(segs, wr) == Written(WriteLoop(segs, 0, <<>>, 0, wr), wr)

\* The error of os.Create.
osCreateError == Error("os.PathError", 0, 0)

\* (s SegmentSlice) WriteFile(filename): os.Create fails with createErr
\* (nothing is written) or gives the file wr, which Write writes to.
WriteFile(segs, createErr, wr) ==
    IF createErr /= Nil THEN [err |-> createErr, text |-> <<>>, lost |-> TRUE]
    ELSE Write(segs, wr)

\* (s SegmentSlice) Size
Size(s) ==
    IF Len(s) = 0 THEN Zero32
    ELSE IF Len(s) = 1 THEN ToUint32(Len(s[1].Data))
    ELSE LET fs == s[1]
             ls == s[Len(s)]
         IN  Sub32(Add32(ls.Address, ToUint32(Len(ls.Data))), fs.Address)

\* sort.Sort(SegmentSlice(segments)): the orders it may leave, any
\* permutation that ascends by Address (the sort is not stable).
SortResults(segs) ==
    {q \in {[i \in 1..Len(segs) |-> segs[p[i]]] : p \in Permutations(1..Len(segs))} :
        \A i \in 1..(Len(segs) - 1) : ~Less32(q[i + 1].Address, q[i].Address)}

\* The lines bufio.Scanner (ScanLines) makes of a text: split at "\n", one
\* trailing "\r" dropped, a last unterminated non-empty line kept.
DropCR(l) == IF l /= <<>> /\ l[Len(l)] = 13 THEN SubSeq(l, 1, Len(l) - 1) ELSE l

RECURSIVE SplitLines(_)
SplitLines(text) ==
    IF text = <<>> THEN <<>>
    ELSE IF \E i \in 1..Len(text) : text[i] = 10
      THEN LET i == CHOOSE k \in 1..Len(text) :
                       text[k] = 10 /\ \A j \in 1..(k - 1) : text[j] /= 10
           IN  <<DropCR(SubSeq(text, 1, i - 1))>>
                 \o SplitLines(SubSeq(text, i + 1, Len(text)))
    ELSE <<DropCR(text)>>


\* =================================================================== state
VARIABLES
    \* the codec's caller
    x,          \* the Record MarshalBinary is called on
    enc,        \* what MarshalBinary returned: [data, err]
    raw,        \* the bytes UnmarshalBinary is called on
    y,          \* what UnmarshalBinary left: [x, err]
    cpc,        \* the caller's position: start, encoded, decoded, roundtrip
    \* the reader and the Scanner on it
    lines,      \* the lines the reader holds
    scanner, firstErr, extendedSegmentedAddressBase,
    extendedLinearAddressBase, segment,
    \* the Scanner's caller
    at,         \* the return the last Scan call took ("none" before any)
    segments,   \* the segments appended after each true Scan
    extra,      \* Scan calls made after the first that returned false
    pass,       \* 1: scanning the given stream, 2: scanning the written text
    written,    \* the slice given to Write and Err() then: [done, segs, err]
    out,        \* what Write returned and wrote: [err, text]
    size,       \* what Size returned: [done, of, v]
    \* the memory behind the slices
    heap,       \* the backing arrays Scan has allocated, in allocation order
    segmentRef, \* the array s.segment.Data points to (0: a nil slice)
    returned    \* every Segment() value the caller got after a true Scan:
                \* [seg: its fields as read then, ref: the array of its Data]

codecVars == <<x, enc, raw, y, cpc>>
scanVars == <<lines, scanner, firstErr, extendedSegmentedAddressBase,
              extendedLinearAddressBase, segment, at, segments, extra, pass,
              written, out, size, heap, segmentRef, returned>>
vars == <<x, enc, raw, y, cpc, lines, scanner, firstErr,
          extendedSegmentedAddressBase, extendedLinearAddressBase, segment,
          at, segments, extra, pass, written, out, size, heap, segmentRef,
          returned>>

\* The Scanner as one value, and the result of Err() on it.
S == [scanner |-> scanner, firstErr |-> firstErr,
      extendedSegmentedAddressBase |-> extendedSegmentedAddressBase,
      extendedLinearAddressBase |-> extendedLinearAddressBase,
      segment |-> segment]
ErrNow == Err(S)

\* ------------------------------------------------------------------ inputs
\* (-sum) mod 256, the checksum as the format defines it.
NegSumMod256(data) == (0 - SumBytes(data)) % 256

SeqsUpTo(set, n) == UNION {[1..k -> set] : k \in 0..n}

DataBytes == {0, 18, 255}
AddressValues == {0, 272, 65535}
TypeValues == {0, 1, 2, 3, 4, 5, 6, 255}

\* Records to encode: any declared count against any data, any type, two
\* prior values of the Checksum field.
RecordInputs ==
    {Record(c, a, t, d, k) :
        c \in 0..MaxData, a \in AddressValues, t \in TypeValues,
        d \in SeqsUpTo(DataBytes, MaxData), k \in {0, 171}}

\* Bytes to decode: a frame with any declared count against any data, a
\* right or wrong checksum byte, with or without a trailing byte, and every
\* prefix of it (the empty input too).
Frames ==
    {<<c>> \o <<a \div 256, a % 256>> \o <<t>> \o d
        \o <<(NegSumMod256(<<c, a \div 256, a % 256, t>> \o d) + k) % 256>> \o tr :
        c \in 0..MaxData, a \in AddressValues, t \in TypeValues,
        d \in SeqsUpTo(DataBytes, MaxData), k \in {0, 1}, tr \in {<<>>, <<239>>}}
RawInputs == UNION {{SubSeq(f, 1, n) : n \in 0..Len(f)} : f \in Frames}

\* A line of text for the bytes b followed by their checksum.
TextLine(b) == <<StartCode>> \o ToUpper(EncodeToString(Append(b, NegSumMod256(b))))

\* The same line with its hex digits in lower case.
TextLineLower(b) == <<StartCode>> \o EncodeToString(Append(b, NegSumMod256(b)))

\* The lines a stream is made of.
LineSet ==
    {<<>>,                                        \* a blank line
     TextLine(<<1, 1, 16, 0, 33>>),               \* Data at 0x0110
     TextLine(<<2, 1, 0, 0, 33, 70>>),            \* Data at 0x0100
     TextLine(<<0, 255, 255, 0>>),                \* Data at 0xFFFF, no bytes
     TextLine(<<0, 0, 0, 1>>),                    \* EOF
     TextLineLower(<<2, 0, 0, 2, 255, 255>>),     \* ExtSegAddr 0xFFFF, in lower case
     TextLine(<<2, 0, 0, 4, 255, 255>>),          \* ExtLinAddr 0xFFFF
     TextLine(<<4, 0, 0, 3, 0, 0, 56, 0>>),       \* StartSegAddr
     TextLine(<<4, 0, 0, 5, 0, 0, 0, 205>>),      \* StartLinAddr
     <<58, 48, 49, 48, 49, 49, 48, 48, 48, 50, 49, 48, 48>>,  \* ":010110002100", a wrong checksum
     <<120>>}                                     \* "x", no start code
Streams == SeqsUpTo(LineSet, MaxLines)

\* The lines of a stream with malformed lines of every kind.
ErrLineSet ==
    {<<>>,                                        \* a blank line
     TextLineLower(<<1, 1, 16, 0, 33>>),          \* ":0101100021cd", Data at 0x0110 in lower case
     TextLine(<<2, 1, 0, 0, 33, 70>>),            \* Data at 0x0100
     TextLine(<<0, 0, 0, 1>>),                    \* EOF
     <<58, 48, 49, 48, 49, 49, 48, 48, 48, 50, 49, 48, 48>>,  \* ":010110002100", a wrong checksum
     TextLine(<<0, 0, 0, 6>>),                    \* type 6
     <<58, 48, 48, 48, 48, 48, 48, 70, 70, 48, 48>>,  \* ":000000FF00", type 0xFF and a wrong checksum
     TextLine(<<0, 0, 0, 2>>),                    \* ExtSegAddr with no data
     <<120>>,                                     \* "x", no start code
     <<58>>,                                      \* ":", no digits
     <<58, 48, 48>>,                              \* ":00", one byte
     <<58, 48, 48, 48, 48, 48, 48>>,              \* ":000000", three bytes
     <<58, 48, 48, 48, 48, 48, 48, 48, 48>>,      \* ":00000000", four bytes, Data
     <<58, 48, 50, 48, 48, 48, 48, 48, 52>>,      \* ":02000004", four bytes, ExtLinAddr
     <<58, 48>>,                                  \* ":0", an odd number of digits
     <<58, 48, 71>>}                              \* ":0G", not a hex digit
ErrStreams == SeqsUpTo(ErrLineSet, MaxLines)

\* Data one byte longer than the byte count of a record can tell.
LongData == [i \in 1..256 |-> 70]

\* The segments a slice is made of: addresses at both ends of the 32-bit
\* range and on both sides of a 64 KiB boundary, data of 0 to 2 bytes, and
\* one segment of 256 bytes.
SegmentInputs ==
    {Segment(a, d) :
        a \in {U32(0, 0), U32(0, 65535), U32(16, 256), U32(65535, 65535)},
        d \in {<<>>, <<33>>, <<33, 70>>}}
    \cup {Segment(U32(0, 0), LongData)}
Slices == SeqsUpTo(SegmentInputs, MaxSegs)

NotWritten == [done |-> FALSE, segs |-> <<>>, err |-> Nil]
NoOutput == [err |-> Nil, text |-> <<>>, lost |-> FALSE]

\* The writers Write is given: one that never fails, and those whose call
\* number 0 to MaxWrites fails, having taken nothing or MaxTaken bytes, and
\* which recover or not.
Writers ==
    {NoFault} \cup {Writer(TRUE, k, t, r) :
                       k \in 0..MaxWrites, t \in {0, MaxTaken}, r \in BOOLEAN}
NoSize == [done |-> FALSE, of |-> <<>>, v |-> Zero32]

\* -------------------------------------------------------------------- Init
CodecIdle ==
    /\ x = ZeroRecord
    /\ enc = [data |-> <<>>, err |-> Nil]
    /\ raw = <<>>
    /\ y = [x |-> ZeroRecord, err |-> Nil]
    /\ cpc = "start"

ScannerNew ==
    /\ scanner = NewScanner.scanner
    /\ firstErr = NewScanner.firstErr
    /\ extendedSegmentedAddressBase = NewScanner.extendedSegmentedAddressBase
    /\ extendedLinearAddressBase = NewScanner.extendedLinearAddressBase
    /\ segment = NewScanner.segment
    /\ at = "none"
    /\ segments = <<>>
    /\ extra = 0
    /\ pass = 1
    /\ written = NotWritten
    /\ out = NoOutput
    /\ size = NoSize
    /\ heap = <<>>
    /\ segmentRef = 0
    /\ returned = <<>>

\* A Scanner just made on a reader holding any stream.
Init ==
    /\ CodecIdle
    /\ lines \in Streams
    /\ ScannerNew

\* A Scanner just made on a reader holding any stream of ErrStreams.
InitErr ==
    /\ CodecIdle
    /\ lines \in ErrStreams
    /\ ScannerNew

\* Any slice of segments in the caller's hands, no Scanner made (pass 0).
InitSlice ==
    /\ CodecIdle
    /\ lines = <<>>
    /\ scanner = NewScanner.scanner
    /\ firstErr = NewScanner.firstErr
    /\ extendedSegmentedAddressBase = NewScanner.extendedSegmentedAddressBase
    /\ extendedLinearAddressBase = NewScanner.extendedLinearAddressBase
    /\ segment = NewScanner.segment
    /\ at = "none"
    /\ segments \in Slices
    /\ extra = 0
    /\ pass = 0
    /\ written = NotWritten
    /\ out = NoOutput
    /\ size = NoSize
    /\ heap = <<>>
    /\ segmentRef = 0
    /\ returned = <<>>

\* A record to encode or bytes to decode, nothing done yet.
InitCodec ==
    /\ \/ x \in RecordInputs /\ raw = <<>>
       \/ x = ZeroRecord /\ raw \in RawInputs
    /\ enc = [data |-> <<>>, err |-> Nil]
    /\ y = [x |-> ZeroRecord, err |-> Nil]
    /\ cpc = "start"
    /\ lines = <<>>
    /\ ScannerNew

\* ----------------------------------------------------------------- actions
\* data, err := x.MarshalBinary(); the bytes go on to the decoder.
MarshalCall ==
    /\ cpc = "start"
    /\ raw = <<>>
    /\ LET m == MarshalBinary(x) IN
         /\ x' = m.x
         /\ enc' = [data |-> m.data, err |-> m.err]
         /\ raw' = m.data
    /\ cpc' = "encoded"
    /\ UNCHANGED <<y, scanVars>>

\* err := (&r).UnmarshalBinary(raw) on a zero Record r.
UnmarshalCall ==
    /\ cpc \in {"start", "encoded"}
    /\ LET u == UnmarshalBinary(raw) IN y' = [x |-> u.x, err |-> u.err]
    /\ cpc' = IF cpc = "encoded" THEN "roundtrip" ELSE "decoded"
    /\ UNCHANGED <<x, enc, raw, scanVars>>

\* How the reader of the lines may end, seen from a call: with io.EOF
\* after the last line, or with a read error returned by the Read made
\* after any number of the lines not yet delivered.
ReaderEnds ==
    {[err |-> ioEOF, at |-> Len(lines)]}
      \cup {[err |-> ioReadError, at |-> k] : k \in scanner.pos..Len(lines)}

\* s.Scan(), and on true: segments = append(segments, s.Segment()).  The
\* reader ends with rdErr: io.EOF, seen when this call finds no line left,
\* or a read error, returned by the Read made after rdAt lines.
ScanCall(rdErr, rdAt) ==
    /\ [err |-> rdErr, at |-> rdAt] \in ReaderEnds
    /\ (pass = 1 /\ ~written.done /\ ~size.done) \/ pass = 2
    /\ at \in {"none", "segment"} \/ extra < MaxExtra
    /\ at /= "panic"
    /\ \E r \in {Scan(S, lines, rdErr, rdAt)} :
       LET m == MakeData(heap, segmentRef, r.s.segment.Data)
       IN
         /\ scanner' = r.s.scanner
         /\ firstErr' = r.s.firstErr
         /\ extendedSegmentedAddressBase' = r.s.extendedSegmentedAddressBase
         /\ extendedLinearAddressBase' = r.s.extendedLinearAddressBase
         /\ segment' = r.s.segment
         /\ at' = r.at
         /\ segments' = IF r.at = "segment" THEN Append(segments, r.s.segment)
                        ELSE segments
         /\ heap' = IF r.at = "segment" THEN m.heap ELSE heap
         /\ segmentRef' = IF r.at = "segment" THEN m.ref ELSE segmentRef
         /\ returned' = IF r.at = "segment"
                          THEN Append(returned, [seg |-> r.s.segment, ref |-> m.ref])
                        ELSE returned
    /\ extra' = IF at \in {"none", "segment"} /\ extra = 0 THEN 0 ELSE extra + 1
    /\ UNCHANGED <<lines, pass, written, out, size, codecVars>>

\* The caller holds a finished slice: one it was given, or the one a scan
\* loop has left with Err() nil and at least one segment (on an error, and
\* with no segment, the caller gives up).
SliceReady ==
    /\ pass \in {0, 1}
    /\ ~written.done
    /\ pass = 1 => /\ at \notin {"none", "segment", "panic"}
                   /\ ErrNow = Nil
                   /\ Len(segments) /= 0

\* sort.Sort(SegmentSlice(segments)) on a finished slice.
SortCall ==
    /\ SliceReady
    /\ ~size.done
    /\ segments' \in SortResults(segments)
    /\ UNCHANGED <<lines, scanner, firstErr, extendedSegmentedAddressBase,
                   extendedLinearAddressBase, segment, at, extra, pass,
                   written, out, size, heap, segmentRef, returned, codecVars>>

\* SegmentSlice(segments).Size() on a finished slice, before it is written.
SizeCall ==
    /\ SliceReady
    /\ ~size.done
    /\ size' = [done |-> TRUE, of |-> segments, v |-> Size(segments)]
    /\ UNCHANGED <<lines, scanner, firstErr, extendedSegmentedAddressBase,
                   extendedLinearAddressBase, segment, at, segments, extra,
                   pass, written, out, heap, segmentRef, returned, codecVars>>

\* SegmentSlice(segments).Write(w) on a finished slice.
WriteCall(wr) ==
    /\ SliceReady
    /\ written' = [done |-> TRUE, segs |-> segments, err |-> ErrNow]
    /\ out' = Write(segments, wr)
    /\ UNCHANGED <<lines, scanner, firstErr, extendedSegmentedAddressBase,
                   extendedLinearAddressBase, segment, at, segments, extra,
                   pass, size, heap, segmentRef, returned, codecVars>>

\* SegmentSlice(segments).WriteFile(filename) on a finished slice.
WriteFileCall(createErr, wr) ==
    /\ SliceReady
    /\ createErr /= Nil => wr = NoFault
    /\ written' = [done |-> TRUE, segs |-> segments, err |-> ErrNow]
    /\ out' = WriteFile(segments, createErr, wr)
    /\ UNCHANGED <<lines, scanner, firstErr, extendedSegmentedAddressBase,
                   extendedLinearAddressBase, segment, at, segments, extra,
                   pass, size, heap, segmentRef, returned, codecVars>>

\* NewScanner(r) on a reader of the text Write wrote.
NewScannerCall ==
    /\ pass \in {0, 1}
    /\ written.done
    /\ out.err = Nil
    /\ lines' = SplitLines(out.text)
    /\ scanner' = NewScanner.scanner
    /\ firstErr' = NewScanner.firstErr
    /\ extendedSegmentedAddressBase' = NewScanner.extendedSegmentedAddressBase
    /\ extendedLinearAddressBase' = NewScanner.extendedLinearAddressBase
    /\ segment' = NewScanner.segment
    /\ at' = "none"
    /\ segments' = <<>>
    /\ extra' = 0
    /\ pass' = 2
    /\ size' = NoSize
    /\ heap' = <<>>
    /\ segmentRef' = 0
    /\ returned' = <<>>
    /\ UNCHANGED <<written, out, codecVars>>

\* The numbers of lines a reader may have given: a written text has at most
\* two lines for each segment and one more.
ReaderPlaces == 0..(2 * (MaxLines + MaxSegs) + 1)

Next ==
    \/ \E rdErr \in {ioEOF, ioReadError}, rdAt \in ReaderPlaces :
          ScanCall(rdErr, rdAt)
    \/ SortCall
    \/ SizeCall
    \/ \E wr \in Writers : WriteCall(wr)
    \/ \E createErr \in {Nil, osCreateError}, wr \in Writers :
          WriteFileCall(createErr, wr)
    \/ NewScannerCall

NextCodec ==
    \/ MarshalCall
    \/ UnmarshalCall

Spec == Init /\ [][Next]_vars

SpecErr == InitErr /\ [][Next]_vars

SpecSlice == InitSlice /\ [][Next]_vars

SpecCodec == InitCodec /\ [][NextCodec]_vars


\* ================================================================== claims
Encoded == cpc \in {"encoded", "roundtrip"}
Decoded == cpc \in {"decoded", "roundtrip"}

IsExtType(t) == t = RecordTypeExtSegAddr \/ t = RecordTypeExtLinAddr

\* A Record as C1 takes it: a known type, data of the declared length, two
\* data bytes in an extension record.
ValidRecord(r) ==
    /\ r.RecordType < NumRecordTypes
    /\ Len(r.Data) = r.ByteCount
    /\ IsExtType(r.RecordType) => r.ByteCount = 2

\* C1: MarshalBinary of a valid Record succeeds whatever its Checksum field
\* held, and UnmarshalBinary of the bytes it returned succeeds with the same
\* ByteCount, Address, RecordType and Data and with the last byte written as
\* Checksum.
C1_RoundTrip ==
    /\ (Encoded /\ ValidRecord(x)) =>
          /\ enc.err = Nil
          /\ Len(enc.data) = 5 + Len(x.Data)
    /\ (cpc = "roundtrip" /\ ValidRecord(x)) =>
          /\ y.err = Nil
          /\ y.x.ByteCount = x.ByteCount
          /\ y.x.Address = x.Address
          /\ y.x.RecordType = x.RecordType
          /\ y.x.Data = x.Data
          /\ y.x.Checksum = enc.data[Len(enc.data)]

\* C1's case: an extension record with a two-byte address of unequal halves
\* went through both calls.
C1_Witness ==
    /\ cpc = "roundtrip"
    /\ ValidRecord(x)
    /\ x.RecordType = RecordTypeExtSegAddr
    /\ x.Address = 272
    /\ x.Data = <<18, 255>>
    /\ y.err = Nil

\* The conditions of C2 on the input bytes, read off the format.
WellFormed(data) ==
    /\ Len(data) >= 5
    /\ Len(data) = 5 + data[1]
    /\ data[4] < 6
    /\ IsExtType(data[4]) => data[1] = 2
    /\ data[Len(data)] = NegSumMod256(SubSeq(data, 1, Len(data) - 1))

\* C2: UnmarshalBinary returns nil exactly on the inputs of 5 + count bytes
\* with a type below 6, a count of 2 on extension records and a last byte
\* that is the checksum of the others; the fields are then the count, the
\* big-endian address, the type, the count data bytes and the last byte.
C2_DecodeExactly ==
    Decoded =>
        /\ (y.err = Nil) <=> WellFormed(raw)
        /\ WellFormed(raw) =>
              y.x = Record(raw[1], raw[2] * 256 + raw[3], raw[4],
                           SubSeq(raw, 5, 4 + raw[1]), raw[Len(raw)])

\* C2's case: a decoded input that was accepted, with data and an address
\* whose bytes differ.
C2_Witness ==
    /\ cpc = "decoded"
    /\ y.err = Nil
    /\ Len(raw) = 7
    /\ y.x.Address = 272
    /\ y.x.Data = <<18, 255>>

\* C7: MarshalBinary returns an error for every Record whose data length
\* differs from its ByteCount.
C7_MismatchIsError ==
    (Encoded /\ Len(x.Data) /= x.ByteCount) => enc.err /= Nil

\* The rule an error of UnmarshalBinary belongs to.
ErrClass(err) ==
    IF err = Nil THEN "none"
    ELSE IF err.kind \in {"error decoding byte count field",
                          "error decoding address field",
                          "error decoding record type field",
                          "error decoding data field",
                          "error decoding checksum field"} THEN "underflow"
    ELSE IF err.kind = "invalidRecordTypeError" THEN "type"
    ELSE IF err.kind \in {"expected extended segment address record type to have byte count of 0x02",
                          "expected extended linear address record type to have byte count of 0x02"}
      THEN "count"
    ELSE IF err.kind = "unexpected bytes left" THEN "left"
    ELSE "checksum"

\* The rules an input violates, read off the format.
HeaderUnderflow(data) == Len(data) < 4
FieldUnderflow(data) == Len(data) >= 4 /\ Len(data) < 5 + data[1]
BadType(data) == Len(data) >= 4 /\ data[4] >= 6
BadCount(data) == Len(data) >= 4 /\ IsExtType(data[4]) /\ data[1] /= 2
BytesLeft(data) == Len(data) >= 4 /\ Len(data) > 5 + data[1]
BadChecksum(data) ==
    /\ Len(data) >= 4
    /\ Len(data) >= 5 + data[1]
    /\ data[5 + data[1]] /= NegSumMod256(SubSeq(data, 1, Len(data) - 1))

\* C8 as stated: any underflow first, then type, count, leftover, checksum.
C8_OrderAsStated ==
    Decoded =>
        ErrClass(y.err) =
            IF HeaderUnderflow(raw) \/ FieldUnderflow(raw) THEN "underflow"
            ELSE IF BadType(raw) THEN "type"
            ELSE IF BadCount(raw) THEN "count"
            ELSE IF BytesLeft(raw) THEN "left"
            ELSE IF BadChecksum(raw) THEN "checksum"
            ELSE "none"

\* C8, amended: the error is that of the earliest violated rule in the
\* order: underflow of the count, address or type field; type >= 6;
\* extension record with a count other than 2; underflow of the data or the
\* checksum field; leftover bytes; checksum mismatch.
C8_OrderAmended ==
    Decoded =>
        ErrClass(y.err) =
            IF HeaderUnderflow(raw) THEN "underflow"
            ELSE IF BadType(raw) THEN "type"
            ELSE IF BadCount(raw) THEN "count"
            ELSE IF FieldUnderflow(raw) THEN "underflow"
            ELSE IF BytesLeft(raw) THEN "left"
            ELSE IF BadChecksum(raw) THEN "checksum"
            ELSE "none"

\* C8's case: an input that violates two rules at once (an extension record
\* with a count other than 2, and bytes left over) was decoded.
C8_Witness ==
    /\ cpc = "decoded"
    /\ BadCount(raw)
    /\ BytesLeft(raw)
    /\ BadChecksum(raw)
    /\ ErrClass(y.err) = "count"

Front(q) == SubSeq(q, 1, Len(q) - 1)

\* C9: Checksum(bytes) is (-sum) mod 256, so bytes and checksum sum to 0 mod
\* 256; the Checksum field of every record UnmarshalBinary accepts or
\* MarshalBinary produces is the checksum of all bytes but the last.
C9_Checksum ==
    /\ Checksum(raw) = NegSumMod256(raw)
    /\ (SumBytes(raw) + Checksum(raw)) % 256 = 0
    /\ Checksum(x.Data) = NegSumMod256(x.Data)
    /\ (Decoded /\ y.err = Nil) =>
          y.x.Checksum = NegSumMod256(Front(raw))
    /\ (Encoded /\ enc.err = Nil) =>
          /\ x.Checksum = NegSumMod256(Front(enc.data))
          /\ enc.data[Len(enc.data)] = x.Checksum

\* C9's case: a record with data was accepted, its checksum neither 0 nor
\* the plain sum.
C9_Witness ==
    /\ cpc = "decoded"
    /\ y.err = Nil
    /\ Len(y.x.Data) = 2
    /\ y.x.Checksum /= 0
    /\ y.x.Checksum /= SumBytes(Front(raw)) % 256


\* ---------------------------------------------------------- scanner claims
\* Whether a line holds a record that decodes, and that record.
IsRecordLine(l) ==
    /\ l /= <<>>
    /\ l[1] = StartCode
    /\ HexDecode(Tail(l)).err = Nil
    /\ UnmarshalBinary(HexDecode(Tail(l)).dst).err = Nil
LineRecord(l) == UnmarshalBinary(HexDecode(Tail(l)).dst).x

IsLineOfType(l, t) == IsRecordLine(l) /\ LineRecord(l).RecordType = t

\* The most recent extension record among the first k lines (ZeroRecord,
\* whose type is Data, when there is none).
RECURSIVE LastExtension(_, _)
LastExtension(ls, k) ==
    IF k = 0 THEN ZeroRecord
    ELSE IF IsRecordLine(ls[k]) /\ IsExtType(LineRecord(ls[k]).RecordType)
      THEN LineRecord(ls[k])
    ELSE LastExtension(ls, k - 1)

\* B + address as a number split in 16-bit halves, B being v << 4 after an
\* ExtSegAddr record of value v, v << 16 after an ExtLinAddr record, else 0.
ExpectedAddress(ext, address) ==
    LET v == IF IsExtType(ext.RecordType) THEN ext.Data[1] * 256 + ext.Data[2] ELSE 0
    IN  IF ext.RecordType = RecordTypeExtSegAddr
          THEN U32((v * 16 + address) \div 65536, (v * 16 + address) % 65536)
        ELSE IF ext.RecordType = RecordTypeExtLinAddr
          THEN U32(v, address)
        ELSE U32(0, address)

\* C3: after a true Scan the segment holds the data of the Data record just
\* read, at B + record.Address, B given by the most recent extension record
\* read before it (0 when none).
C3_SegmentAddress ==
    at = "segment" =>
        /\ scanner.pos >= 1
        /\ IsLineOfType(lines[scanner.pos], RecordTypeData)
        /\ segment.Data = LineRecord(lines[scanner.pos]).Data
        /\ segment.Address =
              ExpectedAddress(LastExtension(lines, scanner.pos - 1),
                              LineRecord(lines[scanner.pos]).Address)
        /\ segments[Len(segments)] = segment

\* C3's case: a Data record at 0x0110 emitted under the segmented base of
\* 0xFFFF, with another line between the two: 0xFFFF0 + 0x0110 = 0x100100.
C3_Witness ==
    /\ pass = 1
    /\ at = "segment"
    /\ scanner.pos = 3
    /\ IsLineOfType(lines[1], RecordTypeExtSegAddr)
    /\ segment.Address = U32(16, 256)

\* C4: once firstErr is set, no step on the same Scanner reads a line,
\* changes a base or the segment, or changes what Err returns, and every
\* Scan call returns false.
C4_StickyError ==
    [][(firstErr /= Nil /\ pass' = pass) =>
          /\ firstErr' = firstErr
          /\ scanner' = scanner
          /\ extendedSegmentedAddressBase' = extendedSegmentedAddressBase
          /\ extendedLinearAddressBase' = extendedLinearAddressBase
          /\ segment' = segment
          /\ ErrNow' = ErrNow
          /\ at' /= "segment"
          /\ Len(segments') = Len(segments)]_vars

\* C4's case: a Scan call made after an error was set, with lines unread.
C4_Witness ==
    /\ pass = 1
    /\ firstErr /= Nil
    /\ at = "sticky"
    /\ extra >= 1
    /\ scanner.pos < Len(lines)
    /\ Len(segments) >= 1

\* No EOF record among the lines read so far.
NoEOFRead == \A i \in 1..scanner.pos : ~IsLineOfType(lines[i], RecordTypeEOF)

DataLines(ls) == {i \in 1..Len(ls) : IsLineOfType(ls[i], RecordTypeData)}

\* C5: when the reader has ended with io.EOF and no EOF record was read,
\* Scan has returned false, Err is an error other than io.EOF, and every Data
\* record of the stream was emitted by a true Scan.
C5_MissingEOF ==
    (scanner.done /\ scanner.err = ioEOF /\ NoEOFRead) =>
        /\ at \in {"exhausted", "sticky"}
        /\ ErrNow /= Nil
        /\ ErrNow /= ioEOF
        /\ ErrNow.kind = "unexpected EOF"
        /\ Len(segments) = Cardinality(DataLines(lines))

\* C5's case: a stream with a blank line and Data records and no EOF record
\* was read to its end.
C5_Witness ==
    /\ pass = 1
    /\ scanner.done
    /\ scanner.err = ioEOF
    /\ NoEOFRead
    /\ at = "exhausted"
    /\ Len(lines) = 3
    /\ lines[2] = <<>>
    /\ Len(segments) = 2

\* C5's other case: the empty stream.
C5_WitnessEmpty ==
    /\ pass = 1
    /\ lines = <<>>
    /\ scanner.done
    /\ scanner.err = ioEOF
    /\ at = "exhausted"

\* An EOF record is among the lines read so far.
EOFRead == ~NoEOFRead

\* The reader of the lines has returned a read error.
ReaderFailed == scanner.err = ioReadError

\* C6: the Scan call that reads an EOF record returns false with Err() nil,
\* and after it no Scan call on the same Scanner reads a line, returns true,
\* changes a base or sets an error.
C6_EOFIsFinal ==
    /\ []((at = "eof" /\ ~ReaderFailed) => ErrNow = Nil)
    /\ [][(EOFRead /\ pass' = pass) =>
            /\ scanner' = scanner
            /\ at' /= "segment"
            /\ extendedSegmentedAddressBase' = extendedSegmentedAddressBase
            /\ extendedLinearAddressBase' = extendedLinearAddressBase
            /\ firstErr' = firstErr]_vars

\* a <= b on every pair of neighbours.
Ascending(segs) ==
    \A i \in 1..(Len(segs) - 1) : ~Less32(segs[i + 1].Address, segs[i].Address)

\* The slice given to Write came from a scan that ended without error and
\* was sorted by address.
ScannedAndSorted == written.done /\ written.err = Nil /\ Ascending(written.segs)

\* The file was created and the writer took every call made on it.
WriterTookAll == ~out.lost

\* C10: Write of such a slice succeeds on a writer that takes every call,
\* and the first false Scan on the text it wrote, read without a read
\* error, is the one at the EOF record, with Err() nil and the same segments
\* in the same order.
C10_WriteScanRoundTrip ==
    /\ (ScannedAndSorted /\ WriterTookAll) => out.err = Nil
    /\ (ScannedAndSorted /\ WriterTookAll /\ ~ReaderFailed
          /\ pass = 2 /\ at \notin {"none", "segment"} /\ extra = 0) =>
          /\ at = "eof"
          /\ ErrNow = Nil
          /\ segments = written.segs

\* C10's case: a segment above 0xFFFF built from the segmented base
\* (0xFFFF0 + 0x0110) came back from the written text.
C10_Witness ==
    /\ ScannedAndSorted
    /\ pass = 2
    /\ at = "eof"
    /\ extra = 0
    /\ Len(written.segs) = 1
    /\ written.segs[1].Address = U32(16, 256)
    /\ segments = written.segs

\* C10's other case: two segments in ascending order came back.
C10_WitnessSorted ==
    /\ ScannedAndSorted
    /\ pass = 2
    /\ at = "eof"
    /\ extra = 0
    /\ Len(segments) = 2
    /\ Less32(segments[1].Address, segments[2].Address)
    /\ Len(segments[1].Data) = 2

\* ------------------------------------------------------------ slice claims
\* The record type, address and data of a record.
Brief(t, address, data) == [RecordType |-> t, Address |-> address, Data |-> data]

\* The records a slice is to be written as, last being the upper 16 bits of
\* the last extended linear address written.
RECURSIVE ExpectedRecords(_, _)
ExpectedRecords(segs, last) ==
    IF segs = <<>> THEN <<Brief(RecordTypeEOF, 0, <<>>)>>
    ELSE LET upper == Head(segs).Address.hi
             lower == Head(segs).Address.lo
         IN  (IF upper /= last
                THEN <<Brief(RecordTypeExtLinAddr, 0, <<upper \div 256, upper % 256>>)>>
              ELSE <<>>)
             \o <<Brief(RecordTypeData, lower, Head(segs).Data)>>
             \o ExpectedRecords(Tail(segs), upper)

\* The lines of the written text, and the bytes the hex text of a line
\* stands for.
WrittenLines == SplitLines(out.text)
LineBytes(l) == HexDecode(Tail(l)).dst

\* The type, address and data fields of a line by their places: the fourth
\* byte, the second and third, and those between the fourth and the last.
LineFields(l) ==
    Brief(LineBytes(l)[4], LineBytes(l)[2] * 256 + LineBytes(l)[3],
          SubSeq(LineBytes(l), 5, Len(LineBytes(l)) - 1))

\* C11: on a writer that takes every call, Write returns nil and every line
\* it wrote is ':' and upper-case hex text of at least five bytes; in order the lines are, for each segment of
\* the slice in slice order, an ExtLinAddr record of Address >> 16 exactly
\* when that differs from the one written last (0 at first) and then a Data
\* record at Address & 0xFFFF with the segment's data, and after them one
\* EOF record, on the last line; and a line whose data is at most 255 bytes
\* decodes as a record.
C11_WriteOrder ==
    (written.done /\ WriterTookAll) =>
        /\ out.err = Nil
        /\ out.text[Len(out.text)] = 10
        /\ \A i \in 1..Len(WrittenLines) :
              /\ WrittenLines[i][1] = StartCode
              /\ ToUpper(WrittenLines[i]) = WrittenLines[i]
              /\ HexDecode(Tail(WrittenLines[i])).err = Nil
              /\ Len(LineBytes(WrittenLines[i])) >= 5
              /\ Len(LineFields(WrittenLines[i]).Data) <= 255 =>
                    IsRecordLine(WrittenLines[i])
        /\ [i \in 1..Len(WrittenLines) |-> LineFields(WrittenLines[i])]
             = ExpectedRecords(written.segs, 0)

\* C11's case: a slice given in descending order was written, an ExtLinAddr
\* record before each of its two Data records (0xFFFF, then back to 0).
C11_Witness ==
    /\ pass = 0
    /\ written.done
    /\ Len(written.segs) = 2
    /\ written.segs[1].Address = U32(65535, 65535)
    /\ written.segs[2].Address = U32(0, 65535)
    /\ Len(WrittenLines) = 5

\* C11's other cases: the empty slice, written as the EOF record alone, and
\* two segments under one base with no ExtLinAddr record between them.
C11_WitnessEmpty ==
    /\ pass = 0
    /\ written.done
    /\ written.segs = <<>>
    /\ WrittenLines = <<TextLine(<<0, 0, 0, 1>>)>>
C11_WitnessSameBase ==
    /\ pass = 0
    /\ written.done
    /\ Len(written.segs) = 2
    /\ written.segs[1].Address.hi = 16
    /\ written.segs[2].Address.hi = 16
    /\ Len(WrittenLines) = 4

\* ----------------------------------------------------- more scanner claims
\* The 16-bit value an extension record carries.
ExtValue(ext) == ext.Data[1] * 256 + ext.Data[2]

\* C12: at most one of the two bases is non-zero, and they are what the
\* last extension record read so far set: after an ExtSegAddr record of
\* value v the segmented base is v << 4 and the linear base 0, after an
\* ExtLinAddr record the linear base is v << 16 and the segmented base 0,
\* and both are 0 while none was read; so no other record, blank line,
\* error or later call changes either.
C12_OneBase ==
    /\ extendedSegmentedAddressBase = Zero32 \/ extendedLinearAddressBase = Zero32
    /\ LET ext == LastExtension(lines, scanner.pos) IN
         /\ extendedSegmentedAddressBase =
               IF ext.RecordType = RecordTypeExtSegAddr
                 THEN U32((ExtValue(ext) * 16) \div 65536, (ExtValue(ext) * 16) % 65536)
               ELSE Zero32
         /\ extendedLinearAddressBase =
               IF ext.RecordType = RecordTypeExtLinAddr
                 THEN U32(ExtValue(ext), 0)
               ELSE Zero32

\* C12's case: an ExtLinAddr record read after an ExtSegAddr record has set
\* the linear base and cleared the segmented one, and a Data record after
\* them has left both as they were.
C12_Witness ==
    /\ pass = 1
    /\ scanner.pos = 3
    /\ IsLineOfType(lines[1], RecordTypeExtSegAddr)
    /\ IsLineOfType(lines[2], RecordTypeExtLinAddr)
    /\ at = "segment"
    /\ extendedSegmentedAddressBase = Zero32
    /\ extendedLinearAddressBase = U32(65535, 0)

\* C13: every Segment value the caller got after a true Scan still reads as
\* it did then: the array its Data points to holds the bytes it held when
\* Segment() returned, whatever Scan calls came later (its Address is a
\* field of the caller's copy of the struct, which Scan cannot reach), and
\* an array that holds bytes is not the one any other returned segment
\* points to.
C13_SegmentIndependent ==
    /\ \A i \in 1..Len(returned) :
          /\ returned[i].ref \in 1..Len(heap)
          /\ heap[returned[i].ref] = returned[i].seg.Data
    /\ \A i, j \in 1..Len(returned) :
          (i /= j /\ returned[i].seg.Data /= <<>>) => returned[i].ref /= returned[j].ref
    /\ segmentRef /= 0 => heap[segmentRef] = segment.Data

\* C13's case: two true Scans with different data, and a further Scan call
\* after them; the first segment returned still holds its own bytes.
C13_Witness ==
    /\ pass = 1
    /\ Len(returned) = 2
    /\ returned[1].seg.Data /= returned[2].seg.Data
    /\ returned[1].seg.Address /= returned[2].seg.Address
    /\ at \notin {"none", "segment"}
    /\ heap[returned[1].ref] = returned[1].seg.Data

\* ------------------------------------------------------------- Size claims
\* A number of any size as hi * 65536 + lo with lo in 0..65535.
Wide(hi, lo) == [hi |-> hi + (lo \div 65536), lo |-> lo % 65536]
WideLeq(a, b) == a.hi < b.hi \/ (a.hi = b.hi /\ a.lo <= b.lo)

\* The address one past the last byte of a segment.
SegmentEnd(seg) == Wide(seg.Address.hi, seg.Address.lo + Len(seg.Data))

\* Ascending by address, each segment ending at or before the next begins.
SortedNonOverlapping(s) ==
    \A i \in 1..(Len(s) - 1) :
        WideLeq(SegmentEnd(s[i]), Wide(s[i + 1].Address.hi, s[i + 1].Address.lo))

\* The number of bytes from the first segment's address to the end of the
\* last segment.
Span(s) ==
    Wide(s[Len(s)].Address.hi - s[1].Address.hi,
         s[Len(s)].Address.lo + Len(s[Len(s)].Data) - s[1].Address.lo)

\* seg.Address - first.Address + len(seg.Data), where the segment's data
\* ends in a buffer that begins at the first segment's address.
OffsetEnd(s, i) ==
    Wide(s[i].Address.hi - s[1].Address.hi,
         s[i].Address.lo - s[1].Address.lo + Len(s[i].Data))

\* C14: Size returns 0 for the empty slice, the data length for one segment
\* and (last.Address + len(last.Data)) - first.Address modulo 2^32 for two
\* or more; for a slice sorted by address with no overlap that value is the
\* number of bytes from the first address to the end of the last segment,
\* and every segment's data ends within that many bytes of the first address.
C14_SizeIsSpan ==
    size.done =>
        LET s == size.of
            v == Wide(size.v.hi, size.v.lo)
        IN  /\ Len(s) = 0 => size.v = Zero32
            /\ Len(s) = 1 => v = Wide(0, Len(s[1].Data))
            /\ Len(s) >= 2 => v = Wide(Span(s).hi % 65536, Span(s).lo)
            /\ (Len(s) >= 1 /\ SortedNonOverlapping(s)) =>
                  /\ v = Span(s)
                  /\ \A i \in 1..Len(s) : WideLeq(OffsetEnd(s, i), v)

\* ------------------------------------------------------ error-kind claims
\* The line Scan stopped at with an error, when it did: firstErr is set and
\* the reader has not ended.
StoppedAtLine == firstErr /= Nil /\ ~scanner.done /\ scanner.pos >= 1
StopLine == lines[scanner.pos]

\* That line has the start code and hex text after it; its bytes.
StopLineIsHex == StopLine[1] = StartCode /\ HexDecode(Tail(StopLine)).err = Nil
StopBytes == HexDecode(Tail(StopLine)).dst

\* The bytes b have a type byte of 6 or more.
TypeByteInvalid(b) == Len(b) >= 4 /\ b[4] >= NumRecordTypes

\* The bytes b are a record in all but the checksum: a valid type, as many
\* data bytes as the byte count says (2 for an extension record), and a last
\* byte that is not the checksum of the bytes before it.
ChecksumMismatch(b) ==
    /\ Len(b) >= 5
    /\ b[4] < NumRecordTypes
    /\ IsExtType(b[4]) => b[1] = 2
    /\ Len(b) = 5 + b[1]
    /\ b[Len(b)] /= NegSumMod256(SubSeq(b, 1, Len(b) - 1))

\* C15: when Scan has stopped at a line whose bytes fail to decode, Err() is
\* the very error UnmarshalBinary returns for them; IsChecksumError(Err())
\* holds exactly when the line is a checksum mismatch, Err() then carrying
\* the last byte of the line as expected and the checksum of the bytes
\* before it as calculated; IsInvalidRecordTypeError(Err()) holds exactly
\* when the type byte is 6 or more, Err() then carrying that byte; never
\* both, and neither for any other error.
C15_ErrorKinds ==
    /\ (StoppedAtLine /\ StopLineIsHex) => ErrNow = UnmarshalBinary(StopBytes).err
    /\ IsChecksumError(ErrNow) <=>
          (StoppedAtLine /\ StopLineIsHex /\ ChecksumMismatch(StopBytes))
    /\ IsChecksumError(ErrNow) =>
          /\ ErrNow = checksumError(StopBytes[Len(StopBytes)],
                                    NegSumMod256(SubSeq(StopBytes, 1, Len(StopBytes) - 1)))
          /\ ~IsInvalidRecordTypeError(ErrNow)
    /\ IsInvalidRecordTypeError(ErrNow) <=>
          (StoppedAtLine /\ StopLineIsHex /\ TypeByteInvalid(StopBytes))
    /\ IsInvalidRecordTypeError(ErrNow) =>
          ErrNow = invalidRecordTypeError(StopBytes[4])

\* C15's case: Scan stopped at ":010110002100" after a segment; Err() is the
\* checksum error with 0x00 expected and 0xCD calculated.
C15_Witness ==
    /\ pass = 1
    /\ StoppedAtLine
    /\ Len(segments) = 1
    /\ IsChecksumError(ErrNow)
    /\ ErrNow.a = 0
    /\ ErrNow.b = 205

\* C15's other cases: a type byte of 0xFF on a line whose checksum is wrong
\* too, and a format error of UnmarshalBinary (an ExtSegAddr record with no
\* data).
C15_WitnessType ==
    /\ pass = 1
    /\ StoppedAtLine
    /\ IsInvalidRecordTypeError(ErrNow)
    /\ ErrNow.a = 255
C15_WitnessFormat ==
    /\ pass = 1
    /\ StoppedAtLine
    /\ StopLineIsHex
    /\ Len(StopBytes) = 5
    /\ StopBytes[4] = RecordTypeExtSegAddr
    /\ ErrNow /= Nil
    /\ ~IsChecksumError(ErrNow)
    /\ ~IsInvalidRecordTypeError(ErrNow)

\* ----------------------------------------------------------- order claims
\* The index of the k-th Data record among the lines ls (0 when there are
\* fewer than k).
NthDataLine(ls, k) ==
    IF \E i \in 1..Len(ls) : i \in DataLines(ls)
                             /\ Cardinality({j \in DataLines(ls) : j <= i}) = k
      THEN CHOOSE i \in 1..Len(ls) : i \in DataLines(ls)
                             /\ Cardinality({j \in DataLines(ls) : j <= i}) = k
    ELSE 0

\* A line that ends the scan: an EOF record, or a line that is neither
\* blank nor a record.
IsStopLine(l) == IsLineOfType(l, RecordTypeEOF) \/ (l /= <<>> /\ ~IsRecordLine(l))

\* The Data records that precede the first EOF record or erroneous line.
DataBeforeStop(ls) ==
    {i \in DataLines(ls) : \A j \in 1..(i - 1) : ~IsStopLine(ls[j])}

\* C16: a true Scan has read the lines up to the Data record it emits and
\* none after it; the k-th segment returned is the k-th Data record of the
\* stream; and the true returns are as many as the Data records before the
\* first EOF record or erroneous line: never more, and as many once Scan has
\* returned false.
C16_LazyInOrder ==
    /\ at = "segment" => scanner.pos = NthDataLine(lines, Len(returned))
    /\ \A k \in 1..Len(returned) :
          /\ NthDataLine(lines, k) /= 0
          /\ returned[k].seg.Data = LineRecord(lines[NthDataLine(lines, k)]).Data
          /\ returned[k].seg.Address =
                ExpectedAddress(LastExtension(lines, NthDataLine(lines, k) - 1),
                                LineRecord(lines[NthDataLine(lines, k)]).Address)
    /\ Len(returned) <= Cardinality(DataBeforeStop(lines))
    /\ at \notin {"none", "segment"} =>
          Len(returned) = Cardinality(DataBeforeStop(lines))

\* ----------------------------------------------------------- no-op claims
\* A blank line, or a StartSegAddr or StartLinAddr record that decodes.
IsNoOpLine(l) ==
    \/ l = <<>>
    \/ IsLineOfType(l, RecordTypeStartSegAddr)
    \/ IsLineOfType(l, RecordTypeStartLinAddr)

\* The stream without those lines.
StripNoOps(ls) == SelectSeq(ls, LAMBDA l : ~IsNoOpLine(l))

\* for s.Scan() { segs = append(segs, s.Segment()) } from the scanner s on:
\* the scanner when Scan returns false, and the segments.
RECURSIVE ScanAll(_, _, _, _, _)
ScanAll(s, ls, rdErr, rdAt, segs) ==
    LET r == Scan(s, ls, rdErr, rdAt) IN
    IF r.at = "segment"
      THEN ScanAll(r.s, ls, rdErr, rdAt, Append(segs, r.s.segment))
    ELSE [s |-> r.s, segs |-> segs]

\* The scan loop on a new Scanner over the stream without its no-op lines,
\* the reader ending as it has ended here (io.EOF if it has not).
Stripped ==
    ScanAll(NewScanner, StripNoOps(lines),
            IF scanner.err /= Nil THEN scanner.err ELSE ioEOF, 0, <<>>)

\* The scan loop has just ended: Scan has returned false for the first time.
LoopEnded == at \notin {"none", "segment"} /\ extra = 0

\* C17: when the scan loop has ended, the segments it emitted, the two
\* address bases and Err() are those of the scan loop over the stream with
\* every blank line and every valid StartSegAddr and StartLinAddr record
\* removed; so two streams that differ only in such lines give the same.
C17_NoOpLines ==
    LoopEnded =>
        \A st \in {Stripped} :
            /\ [k \in 1..Len(returned) |-> returned[k].seg] = st.segs
            /\ extendedSegmentedAddressBase = st.s.extendedSegmentedAddressBase
            /\ extendedLinearAddressBase = st.s.extendedLinearAddressBase
            /\ ErrNow = Err(st.s)

\* C17's case: a StartLinAddr record between an ExtSegAddr record and the
\* Data record it applies to; the segment is at 0xFFFF0 + 0x0110 as without
\* it.
C17_Witness ==
    /\ pass = 1
    /\ LoopEnded
    /\ Len(lines) = 3
    /\ IsLineOfType(lines[1], RecordTypeExtSegAddr)
    /\ IsLineOfType(lines[2], RecordTypeStartLinAddr)
    /\ Len(returned) = 1
    /\ returned[1].seg.Address = U32(16, 256)
    /\ Len(StripNoOps(lines)) = 2

\* C17's other cases: a blank line and a StartSegAddr record before the EOF
\* record, Err() nil as without them.
C17_WitnessBlank ==
    /\ pass = 1
    /\ LoopEnded
    /\ Len(lines) = 3
    /\ lines[1] = <<>>
    /\ IsLineOfType(lines[2], RecordTypeStartSegAddr)
    /\ IsLineOfType(lines[3], RecordTypeEOF)
    /\ at = "eof"
    /\ ErrNow = Nil

\* ------------------------------------------------------ line-format claims
\* '0'..'9', 'A'..'F', 'a'..'f'
HexDigits == (48..57) \cup (65..70) \cup (97..102)

\* A non-blank line that does not begin with ':', or whose text after the
\* ':' is odd in length or holds a character that is no hex digit.
BadFormat(l) ==
    /\ l /= <<>>
    /\ \/ l[1] /= StartCode
       \/ (Len(l) - 1) % 2 = 1
       \/ \E i \in 2..Len(l) : l[i] \notin HexDigits

FormatErrorKinds == {"expected start code", "hex.InvalidByteError", "hex.ErrLength"}

\* C18: once such a line has been read, Scan has returned false, Err() is a
\* start-code or hex error and stays so, no line after it is read, and the
\* segments returned are those of the Data records before it, their bytes
\* as they were; and a line that is not such a line (its hex digits in
\* either case) never gives a start-code or hex error.
C18_BadFormatLine ==
    /\ \A i \in 1..scanner.pos :
          BadFormat(lines[i]) =>
              /\ scanner.pos = i
              /\ at \in {"error", "sticky"}
              /\ firstErr /= Nil
              /\ ErrNow.kind \in FormatErrorKinds
              /\ Len(returned) = Cardinality({j \in DataLines(lines) : j < i})
              /\ \A k \in 1..Len(returned) :
                    heap[returned[k].ref] =
                        LineRecord(lines[NthDataLine(lines, k)]).Data
    /\ (StoppedAtLine /\ ~BadFormat(StopLine)) => ErrNow.kind \notin FormatErrorKinds

\* C18's case: ":0G" after a Data record and before another line; the Scan
\* call that read it and a call after it have returned false.
C18_Witness ==
    /\ pass = 1
    /\ Len(lines) = 3
    /\ scanner.pos = 2
    /\ lines[2] = <<58, 48, 71>>
    /\ IsLineOfType(lines[3], RecordTypeData)
    /\ at = "sticky"
    /\ Len(returned) = 1
    /\ ErrNow = Error("hex.InvalidByteError", 71, 0)

\* C18's other cases: a line without the start code, a line with an odd
\* number of digits, and a Data record in lower case, which is emitted.
C18_WitnessStartCode ==
    /\ pass = 1
    /\ scanner.pos = 1
    /\ lines[1] = <<120>>
    /\ at = "error"
    /\ ErrNow = Error("expected start code", 120, 0)
C18_WitnessOdd ==
    /\ pass = 1
    /\ scanner.pos = 1
    /\ lines[1] = <<58, 48>>
    /\ at = "error"
    /\ ErrNow = Error("hex.ErrLength", 0, 0)
C18_WitnessLowerCase ==
    /\ pass = 1
    /\ scanner.pos = 1
    /\ lines[1] = <<58, 48, 49, 48, 49, 49, 48, 48, 48, 50, 49, 99, 100>>
    /\ at = "segment"
    /\ segment = Segment(U32(0, 272), <<33>>)

\* ------------------------------------------------------- I/O error claims
\* C19: when the line source has ended (s.scanner.Scan() has returned
\* false) after a read error of the reader, Scan has returned false and
\* Err() is that read error, in that call and in every call after it; and Err() is the missing-EOF error only when the reader has
\* ended with io.EOF.
C19_ReadError ==
    /\ (scanner.done /\ scanner.err = ioReadError) =>
          /\ at \in {"exhausted", "sticky"}
          /\ firstErr = ioReadError
          /\ ErrNow = ioReadError
    /\ ErrNow.kind = "unexpected EOF" => (scanner.done /\ scanner.err = ioEOF)

\* C19's case: the reader failed after a Data record was emitted, and Scan
\* was called again after the call that met the failure.
C19_Witness ==
    /\ pass = 1
    /\ scanner.done
    /\ scanner.err = ioReadError
    /\ at = "sticky"
    /\ Len(returned) = 1
    /\ ErrNow = ioReadError

\* --------------------------------------------------------- overflow claims
\* The base Scan adds to the address of a Data record.
BaseInUse ==
    IF extendedLinearAddressBase /= Zero32 THEN extendedLinearAddressBase
    ELSE extendedSegmentedAddressBase

\* C20: the linear base is at most 0xFFFF0000 and the segmented base at most
\* 0xFFFF0; and after a true Scan, base + record.Address as numbers is at
\* most 0xFFFFFFFF and is the segment's Address, so the 32-bit addition has
\* not wrapped.
C20_NoWrap ==
    /\ WideLeq(extendedLinearAddressBase, Wide(65535, 0))
    /\ WideLeq(extendedSegmentedAddressBase, Wide(15, 65520))
    /\ at = "segment" =>
          LET sum == Wide(BaseInUse.hi,
                          BaseInUse.lo + LineRecord(lines[scanner.pos]).Address)
          IN  /\ WideLeq(sum, Wide(65535, 65535))
              /\ segment.Address = U32(sum.hi, sum.lo)

\* C20's case: the largest sum, 0xFFFF0000 + 0xFFFF.
C20_Witness ==
    /\ pass = 1
    /\ at = "segment"
    /\ extendedLinearAddressBase = U32(65535, 0)
    /\ LineRecord(lines[scanner.pos]).Address = 65535
    /\ segment.Address = U32(65535, 65535)

\* C20's other case: the largest segmented base, with a carry into the
\* upper half: 0xFFFF0 + 0xFFFF = 0x10FFEF.
C20_WitnessSegmented ==
    /\ pass = 1
    /\ at = "segment"
    /\ extendedSegmentedAddressBase = U32(15, 65520)
    /\ LineRecord(lines[scanner.pos]).Address = 65535
    /\ segment.Address = U32(16, 65519)

\* ------------------------------------------------------------ range claims
\* The lines read so far that are ':' and hex text, and the bytes of one.
HexLinesRead ==
    {i \in 1..scanner.pos :
        /\ lines[i] /= <<>>
        /\ lines[i][1] = StartCode
        /\ HexDecode(Tail(lines[i])).err = Nil}

\* UnmarshalBinary got as far as data[0 : len(data)-1]: it returned nil or a
\* checksum error, or it panicked there.
ReachedChecksum(u) == u.err = Nil \/ IsChecksumError(u.err) \/ IsPanic(u.err)

\* C21: no Scan call has panicked; and for the bytes of every line read,
\* UnmarshalBinary reaches data[0 : len(data)-1] only with at least 5 bytes,
\* and an extension record it returns without error, whose Data[0] and
\* Data[1] Scan then reads, has exactly 2 data bytes.
C21_NoOutOfRange ==
    /\ at /= "panic"
    /\ ~IsPanic(firstErr)
    /\ \A i \in HexLinesRead :
          LET b == LineBytes(lines[i])
              u == UnmarshalBinary(b)
          IN  /\ ~IsPanic(u.err)
              /\ ReachedChecksum(u) => Len(b) >= 5
              /\ (u.err = Nil /\ IsExtType(u.x.RecordType)) => Len(u.x.Data) = 2

\* C21's case: the line ":" (no bytes at all) was read after a segment and
\* Scan returned false with the byte-count error.
C21_Witness ==
    /\ pass = 1
    /\ Len(lines) >= 2
    /\ scanner.pos = 2
    /\ lines[2] = <<58>>
    /\ Len(returned) = 1
    /\ at = "error"
    /\ ErrNow = Error("error decoding byte count field", 0, 0)

\* C21's other cases: four bytes with no checksum byte, and an ExtSegAddr
\* record with no data, both refused before any access.
C21_WitnessNoChecksum ==
    /\ pass = 1
    /\ scanner.pos = 1
    /\ lines[1] = <<58, 48, 48, 48, 48, 48, 48, 48, 48>>
    /\ at = "error"
    /\ ErrNow = Error("error decoding checksum field", 0, 0)
C21_WitnessExtNoData ==
    /\ pass = 1
    /\ scanner.pos = 1
    /\ lines[1] = TextLine(<<0, 0, 0, 2>>)
    /\ at = "error"
    /\ ErrNow.a = 0
    /\ ErrNow.kind /= "error decoding checksum field"
    /\ extendedSegmentedAddressBase = Zero32


\* ------------------------------------------------- writing and scanning back
\* Write returned nil on the slice it was given.
WriteReturnedNil == written.done /\ out.err = Nil

\* The scan of the written text came to its first false Scan.
RescanEnded == pass = 2 /\ at \notin {"none", "segment"} /\ extra = 0

\* C22: whenever Write returns nil, whatever the order, the addresses and the
\* data lengths of the segments, every line it wrote decodes as a valid
\* record, and the scan of the written text, read without a read error,
\* ends at the EOF record with Err() nil and one segment per segment given,
\* with its address and data.
C22_WriteRescan ==
    WriteReturnedNil =>
        /\ \A i \in 1..Len(WrittenLines) : IsRecordLine(WrittenLines[i])
        /\ (RescanEnded /\ ~ReaderFailed) =>
              /\ at = "eof"
              /\ ErrNow = Nil
              /\ segments = written.segs


=============================================================================
